---------------------------- MODULE Spec2Model ----------------------------
(***************************************************************************)
(* Model of the scoring and ranking engine and of the feature extraction   *)
(* of the LSETF recruitment tool (src/app/services/ranking_service.py,     *)
(* src/app/services/extraction_service.py, src/app/core/models.py and the  *)
(* callers in src/app/main.py and src/app/test_services.py).               *)
(*                                                                         *)
(* Representation.                                                         *)
(*  - A Python str is a sequence of one-character strings, so that         *)
(*    str.lower(), " ".join(...) and the substring test `term in text`     *)
(*    are computed character by character.                                 *)
(*  - A float score or weight x is the integer 10*x (tenths); a weighted   *)
(*    total t is the integer 100*t (hundredths).  Arithmetic is exact:     *)
(*    binary floating-point rounding is not modelled.                      *)
(*  - Optional[str] is <<>> for None and <<s>> for the string s.           *)
(*  - A CandidateProfile object is named by its candidate_id; a list of    *)
(*    profiles is a sequence of such references.                           *)
(*  - What spaCy's nlp returns for a text (tokens, entities, sentences, or *)
(*    an exception) is a choice among the docs that text admits.           *)
(*                                                                         *)
(* Specifications.                                                         *)
(*  - Spec: one caller of the global ranking_service.                      *)
(*  - SpecScorer: direct calls of the calculate_* methods.                 *)
(*  - SpecRequests: two callers of the global ranking_service in parallel. *)
(*  - SpecExtraction: calls of the extraction service and of the callers   *)
(*    that score what it returns.                                          *)
(***************************************************************************)
EXTENDS Integers, Sequences, FiniteSets, TLC

VARIABLES
    criteria,   \* ranking_service.criteria, the attribute of the global instance
    profiles,   \* the CandidateProfile objects, by candidate_id
    call,       \* the inputs of a pending direct call of one calculate_* or
                \* extract_* method, or of a caller of extract_all
    ret,        \* the most recent method call: its argument, the self.criteria it
                \* read, and what it returned
    requests    \* the callers that run in parallel: where each is in its code, and
                \* the locals of the method call it is in

vars == <<criteria, profiles, call, ret, requests>>

---------------------------------------------------------------------------
(* Strings *)

UpperCase == <<"A","B","C","D","E","F","G","H","I","J","K","L","M",
               "N","O","P","Q","R","S","T","U","V","W","X","Y","Z">>
LowerCase == <<"a","b","c","d","e","f","g","h","i","j","k","l","m",
               "n","o","p","q","r","s","t","u","v","w","x","y","z">>

Range(s) == {s[i] : i \in DOMAIN s}

\* the characters the model's strings are written in
Chars == Range(UpperCase) \cup Range(LowerCase) \cup {" ", ".", "/", "5"}

\* str.lower() on one character: an upper-case letter becomes its lower-case
\* letter, any other character is unchanged
LowerChar ==
    [c \in Chars |->
        IF \E i \in DOMAIN UpperCase : UpperCase[i] = c
        THEN LowerCase[CHOOSE i \in DOMAIN UpperCase : UpperCase[i] = c]
        ELSE c]

\* str.lower()
lower(s) == [i \in DOMAIN s |-> LowerChar[s[i]]]

\* `term in text` for two strings
Contains(text, term) ==
    \E i \in 1..(Len(text) - Len(term) + 1) :
        \A j \in 1..Len(term) : text[i + j - 1] = term[j]

\* any(term in text for term in terms)
ContainsAny(text, terms) == \E term \in terms : Contains(text, term)

RECURSIVE JoinSpace(_)
\* " ".join(strings)
JoinSpace(strings) ==
    IF strings = <<>> THEN <<>>
    ELSE IF Len(strings) = 1 THEN strings[1]
    ELSE strings[1] \o <<" ">> \o JoinSpace(Tail(strings))

\* Optional[str]
None == <<>>
Some(s) == <<s>>

---------------------------------------------------------------------------
(* Scores, in tenths *)

\* 1.0: the cap of a criterion score, and the 10.0 of len(skills) / 10.0
FULL_SCORE == 10
\* 0.2 for each required skill matched
REQUIRED_BONUS == 2
DOCTORATE_SCORE == 10
MASTER_SCORE == 8
BACHELOR_SCORE == 6
DIPLOMA_SCORE == 4
EXPERIENCE_SCORE == 7

Min(a, b) == IF a <= b THEN a ELSE b

DOCTORATE_TERMS == {<<"p","h","d">>, <<"d","o","c","t","o","r","a","t","e">>}
MASTER_TERMS == {<<"m","a","s","t","e","r">>, <<"m","s","c">>, <<"m","b","a">>}
BACHELOR_TERMS == {<<"b","a","c","h","e","l","o","r">>, <<"b",".","s","c">>,
                   <<"u","n","d","e","r","g","r","a","d","u","a","t","e">>}
DIPLOMA_TERMS == {<<"d","i","p","l","o","m","a">>,
                  <<"c","e","r","t","i","f","i","c","a","t","e">>,
                  <<"o","n","d">>, <<"h","n","d">>}
EXPERIENCE_TERMS == {<<"y","e","a","r">>, <<"y","r">>,
                     <<"e","x","p","e","r","i","e","n","c","e">>}

---------------------------------------------------------------------------
(* RankingService: the three criterion scores *)

\* [skill for skill in skills if skill.lower() in [rs.lower() for rs in required_skills]]
required_skills_matched(skills, required_skills) ==
    LET lowered == {lower(rs) : rs \in Range(required_skills)}
    IN  SelectSeq(skills, LAMBDA skill : lower(skill) \in lowered)

\* faulty variant: the base score is len(skills) / 5.0
calculate_skills_score_unbased(skills, crit) ==
    IF skills = <<>> THEN 0
    ELSE Min(2 * Len(skills)
             + Len(required_skills_matched(skills, crit.required_skills)) * REQUIRED_BONUS,
             FULL_SCORE)

\* faulty variant: skills are compared with required_skills without lower()
calculate_skills_score_case_sensitive(skills, crit) ==
    IF skills = <<>> THEN 0
    ELSE Min(Min(Len(skills), FULL_SCORE)
             + Len(SelectSeq(skills, LAMBDA skill : skill \in Range(crit.required_skills)))
               * REQUIRED_BONUS,
             FULL_SCORE)

\* faulty variant: the sum of base score and bonus is not capped at 1.0
calculate_skills_score_uncapped(skills, crit) ==
    IF skills = <<>> THEN 0
    ELSE Min(Len(skills), FULL_SCORE)
         + Len(required_skills_matched(skills, crit.required_skills)) * REQUIRED_BONUS

\* calculate_skills_score(self, skills), self.criteria given as crit
calculate_skills_score(skills, crit) ==
    IF skills = <<>> THEN 0
    ELSE LET base_score == Min(Len(skills), FULL_SCORE)
             required_bonus ==
                 Len(required_skills_matched(skills, crit.required_skills)) * REQUIRED_BONUS
         IN  Min(base_score + required_bonus, FULL_SCORE)

\* faulty variant: the tiers are tested lowest first
calculate_education_score_lowest_first(education) ==
    IF education = <<>> THEN 0
    ELSE LET education_text == lower(JoinSpace(education))
         IN  IF ContainsAny(education_text, DIPLOMA_TERMS) THEN DIPLOMA_SCORE
             ELSE IF ContainsAny(education_text, BACHELOR_TERMS) THEN BACHELOR_SCORE
             ELSE IF ContainsAny(education_text, MASTER_TERMS) THEN MASTER_SCORE
             ELSE IF ContainsAny(education_text, DOCTORATE_TERMS) THEN DOCTORATE_SCORE
             ELSE 0

\* calculate_education_score(self, education)
calculate_education_score(education) ==
    IF education = <<>> THEN 0
    ELSE LET education_text == lower(JoinSpace(education))
         IN  IF ContainsAny(education_text, DOCTORATE_TERMS) THEN DOCTORATE_SCORE
             ELSE IF ContainsAny(education_text, MASTER_TERMS) THEN MASTER_SCORE
             ELSE IF ContainsAny(education_text, BACHELOR_TERMS) THEN BACHELOR_SCORE
             ELSE IF ContainsAny(education_text, DIPLOMA_TERMS) THEN DIPLOMA_SCORE
             ELSE 0

\* faulty variant: any non-empty text scores 0.7
calculate_experience_score_any_text(experience_text) ==
    IF experience_text = <<>> THEN 0 ELSE EXPERIENCE_SCORE

\* calculate_experience_score(self, experience_text)
calculate_experience_score(experience_text) ==
    IF experience_text = <<>> THEN 0
    ELSE LET text_lower == lower(experience_text)
         IN  IF ContainsAny(text_lower, EXPERIENCE_TERMS) THEN EXPERIENCE_SCORE ELSE 0

---------------------------------------------------------------------------
(* The strings the inputs are built from *)

python == <<"p","y","t","h","o","n">>
Python_ == <<"P","y","t","h","o","n">>
sql == <<"s","q","l">>
SQL_ == <<"S","Q","L">>
javascript == <<"j","a","v","a","s","c","r","i","p","t">>
react == <<"r","e","a","c","t">>
node_js == <<"n","o","d","e",".","j","s">>
aws == <<"a","w","s">>
AWS_ == <<"A","W","S">>
git == <<"g","i","t">>
java == <<"j","a","v","a">>

\* education sentences
s_PhD == <<"P","h","D">>
s_MBA == <<"M","B","A">>
s_Bachelor == <<"B","a","c","h","e","l","o","r">>
s_HND == <<"H","N","D">>
s_London == <<"L","o","n","d","o","n">>
s_school == <<"s","c","h","o","o","l">>

\* experience texts
t_empty == <<>>
t_5_Yrs == <<"5"," ","Y","r","s">>
t_Experience == <<"E","x","p","e","r","i","e","n","c","e">>
t_intern == <<"i","n","t","e","r","n">>

---------------------------------------------------------------------------
(* app/core/models.py *)

BreakdownKeys == {"skills", "education", "experience"}

\* score_breakdown: Dict[str, float] = Field(default_factory=dict)
EmptyBreakdown == [k \in {} |-> 0]

\* ExtractedData(raw_text, skills, education, experience); raw_text is not read by
\* the ranking service and is left out
ExtractedData(skills, education, experience) ==
    [skills |-> skills, education |-> education, experience |-> experience]

\* CandidateProfile(candidate_id, extracted_data): score 0.0, score_breakdown {}
CandidateProfile(candidate_id, extracted_data) ==
    [candidate_id |-> candidate_id, extracted_data |-> extracted_data,
     score |-> 0, score_breakdown |-> EmptyBreakdown]

RankingCriteria(skills_weight, experience_weight, education_weight, required_skills) ==
    [skills_weight |-> skills_weight, experience_weight |-> experience_weight,
     education_weight |-> education_weight, required_skills |-> required_skills]

\* RankingCriteria(): the field defaults 0.5, 0.3, 0.2, []
RankingCriteriaDefaults == RankingCriteria(5, 3, 2, <<>>)

\* main.py
DEFAULT_CRITERIA ==
    RankingCriteria(5, 3, 2, <<python, javascript, sql, react, node_js, aws>>)

---------------------------------------------------------------------------
(* RankingService.score_candidate and rank_candidates *)

\* profile.extracted_data.experience or ""
or_empty(experience) ==
    IF experience = None THEN <<>> ELSE experience[1]

\* faulty variant: education and experience weights exchanged
weighted_total_swapped(breakdown, crit) ==
    breakdown["skills"] * crit.skills_weight
    + breakdown["education"] * crit.experience_weight
    + breakdown["experience"] * crit.education_weight

\* faulty variant: the experience score is added without its weight
weighted_total_experience_unweighted(breakdown, crit) ==
    breakdown["skills"] * crit.skills_weight
    + breakdown["education"] * crit.education_weight
    + breakdown["experience"] * FULL_SCORE

\* total_score, in hundredths
weighted_total(breakdown, crit) ==
    breakdown["skills"] * crit.skills_weight
    + breakdown["education"] * crit.education_weight
    + breakdown["experience"] * crit.experience_weight

\* the breakdown dict score_candidate builds
score_breakdown_of(extracted_data, crit) ==
    [skills |-> calculate_skills_score(extracted_data.skills, crit),
     education |-> calculate_education_score(extracted_data.education),
     experience |-> calculate_experience_score(or_empty(extracted_data.experience))]

\* faulty variant: the total is added to the score the profile already has
score_candidate_accumulating(profile, crit) ==
    LET breakdown == score_breakdown_of(profile.extracted_data, crit)
    IN  [profile EXCEPT !.score = @ + weighted_total(breakdown, crit),
                        !.score_breakdown = breakdown]

\* faulty variant: the lower-cased skills are written back to the profile
score_candidate_lowering_skills(profile, crit) ==
    LET breakdown == score_breakdown_of(profile.extracted_data, crit)
    IN  [profile EXCEPT !.score = weighted_total(breakdown, crit),
                        !.score_breakdown = breakdown,
                        !.extracted_data.skills = [i \in DOMAIN @ |-> lower(@[i])]]

\* score_candidate(self, profile): the profile object after the call
score_candidate(profile, crit) ==
    LET breakdown == score_breakdown_of(profile.extracted_data, crit)
    IN  [profile EXCEPT !.score = weighted_total(breakdown, crit),
                        !.score_breakdown = breakdown]

\* the sorted list acc with x put where a stable descending sort puts it: after
\* every element whose key is >= the key of x
InsertStableDesc(acc, x, objs) ==
    LET k == Cardinality({i \in DOMAIN acc : objs[acc[i]].score >= objs[x].score})
    IN  SubSeq(acc, 1, k) \o <<x>> \o SubSeq(acc, k + 1, Len(acc))

RECURSIVE sorted_ascending(_, _)
\* faulty variant: reverse=True left out
sorted_ascending(list, objs) ==
    IF list = <<>> THEN <<>>
    ELSE LET acc == sorted_ascending(SubSeq(list, 1, Len(list) - 1), objs)
             x == list[Len(list)]
             k == Cardinality({i \in DOMAIN acc : objs[acc[i]].score <= objs[x].score})
         IN  SubSeq(acc, 1, k) \o <<x>> \o SubSeq(acc, k + 1, Len(acc))

RECURSIVE sorted_unstable(_, _)
\* faulty variant: an ascending sort reversed, which reverses the order of ties
sorted_unstable(list, objs) ==
    IF list = <<>> THEN <<>>
    ELSE LET acc == sorted_unstable(SubSeq(list, 1, Len(list) - 1), objs)
             x == list[Len(list)]
             k == Cardinality({i \in DOMAIN acc : objs[acc[i]].score > objs[x].score})
         IN  SubSeq(acc, 1, k) \o <<x>> \o SubSeq(acc, k + 1, Len(acc))

RECURSIVE sorted_unique(_, _)
\* faulty variant: a profile that occurs twice in the list is kept once
sorted_unique(list, objs) ==
    IF list = <<>> THEN <<>>
    ELSE LET acc == sorted_unique(SubSeq(list, 1, Len(list) - 1), objs)
             x == list[Len(list)]
         IN  IF x \in Range(acc) THEN acc ELSE InsertStableDesc(acc, x, objs)

RECURSIVE sorted_by_score_reverse(_, _)
\* sorted(list, key=lambda x: x.score, reverse=True): Python's sort is stable, and
\* with reverse=True elements with equal keys keep their original order
sorted_by_score_reverse(list, objs) ==
    IF list = <<>> THEN <<>>
    ELSE InsertStableDesc(sorted_by_score_reverse(SubSeq(list, 1, Len(list) - 1), objs),
                          list[Len(list)], objs)

\* the profile objects after [self.score_candidate(profile) for profile in profiles]
scored_profiles(list, objs, crit) ==
    [id \in DOMAIN objs |->
        IF id \in Range(list) THEN score_candidate(objs[id], crit) ELSE objs[id]]

---------------------------------------------------------------------------
(* Bounds and input sets *)

\* longest list given to rank_candidates
MaxBatch == 3
\* longest education list, and longest varied part of a skill list, of a direct call
MaxEducation == 2
MaxVaried == 2
\* most filler skills appended to the varied part of a skill list
MaxPad == 11
\* longest required_skills list of a direct call
MaxRequired == 2

SeqsUpTo(S, n) == UNION {[1..k -> S] : k \in 0..n}

\* candidate_ids of the profile objects
Ids == {"A", "B", "C"}

\* the extracted data the profile objects are built from: each element gives the
\* three profiles of one run
ProfileDataPool ==
    { [A |-> ExtractedData(<<python, sql>>, <<s_MBA>>, None),
       B |-> ExtractedData(<<Python_, SQL_, git, java, aws>>, <<>>, Some(t_empty)),
       C |-> ExtractedData(<<SQL_, git, java, git>>, <<s_Bachelor, s_PhD>>,
                           Some(t_intern))],
      [A |-> ExtractedData(<<>>, <<>>, None),
       B |-> ExtractedData(<<python, sql, aws, react, git, java,
                             Python_, SQL_, python, sql, git, java>>,
                           <<s_London>>, Some(t_Experience)),
       C |-> ExtractedData(<<>>, <<s_PhD>>, Some(t_5_Yrs))] }

\* the criteria callers assign to ranking_service.criteria
CriteriaPool ==
    { RankingCriteriaDefaults, DEFAULT_CRITERIA,
      RankingCriteria(-5, 3, 12, <<SQL_, SQL_>>) }

\* inputs of the direct calls of the calculate_* methods
RECURSIVE Pad(_, _)
Pad(skills, n) == IF n = 0 THEN skills ELSE Pad(Append(skills, java), n - 1)

SkillLists ==
    {Pad(v, n) : v \in SeqsUpTo({sql, SQL_, AWS_, git}, MaxVaried), n \in 0..MaxPad}
RequiredLists == SeqsUpTo({sql, aws, java, Python_}, MaxRequired)
EducationLists ==
    SeqsUpTo({s_PhD, s_MBA, s_Bachelor, s_HND, s_London, s_school}, MaxEducation)
ExperienceTexts == {t_empty, t_5_Yrs, t_Experience, t_intern}

Calls ==
    [op : {"calculate_skills_score"}, arg : SkillLists]
    \cup [op : {"calculate_education_score"}, arg : EducationLists]
    \cup [op : {"calculate_experience_score"},
          arg : {None} \cup {Some(t) : t \in ExperienceTexts}]

NoCall == [op |-> "none", arg |-> <<>>]
NoRet == [op |-> "none", arg |-> <<>>, crit |-> <<>>, value |-> <<>>]
\* no caller runs in parallel with the one that is modelled
NoRequests == <<>>

---------------------------------------------------------------------------
(* The service object and its callers *)

\* ranking_service = RankingService(): self.criteria = criteria or RankingCriteria()
Init ==
    /\ criteria = RankingCriteriaDefaults
    /\ \E data \in ProfileDataPool :
          profiles = [id \in Ids |-> CandidateProfile(id, data[id])]
    /\ call = NoCall
    /\ ret = NoRet
    /\ requests = NoRequests

\* ranking_service.criteria = c
SetCriteria(c) ==
    /\ criteria' = c
    /\ UNCHANGED <<profiles, call, ret, requests>>

\* ranking_service.score_candidate(profile)
ScoreCandidate(id) ==
    /\ profiles' = [profiles EXCEPT ![id] = score_candidate(profiles[id], criteria)]
    /\ ret' = [op |-> "score_candidate", arg |-> <<id>>, crit |-> criteria,
               value |-> <<id>>]
    /\ UNCHANGED <<criteria, call, requests>>

\* ranking_service.rank_candidates(list)
RankCandidates(list) ==
    /\ profiles' = scored_profiles(list, profiles, criteria)
    /\ ret' = [op |-> "rank_candidates", arg |-> list, crit |-> criteria,
               value |-> sorted_by_score_reverse(list, profiles')]
    /\ UNCHANGED <<criteria, call, requests>>

Next ==
    \/ \E c \in CriteriaPool : SetCriteria(c)
    \/ \E id \in Ids : ScoreCandidate(id)
    \/ \E list \in SeqsUpTo(Ids, MaxBatch) : RankCandidates(list)

Spec == Init /\ [][Next]_vars

---------------------------------------------------------------------------
(* Direct calls of the three criterion scores, on inputs drawn at the start *)

InitScorer ==
    /\ criteria \in {RankingCriteria(5, 3, 2, r) : r \in RequiredLists}
    /\ profiles = [id \in Ids |-> CandidateProfile(id, ExtractedData(<<>>, <<>>, None))]
    /\ call \in Calls
    /\ ret = NoRet
    /\ requests = NoRequests

CalculateSkillsScore ==
    /\ call.op = "calculate_skills_score"
    /\ ret' = [op |-> call.op, arg |-> call.arg, crit |-> criteria,
               value |-> calculate_skills_score(call.arg, criteria)]
    /\ UNCHANGED <<criteria, profiles, call, requests>>

CalculateEducationScore ==
    /\ call.op = "calculate_education_score"
    /\ ret' = [op |-> call.op, arg |-> call.arg, crit |-> criteria,
               value |-> calculate_education_score(call.arg)]
    /\ UNCHANGED <<criteria, profiles, call, requests>>

\* self.calculate_experience_score(profile.extracted_data.experience or "")
CalculateExperienceScore ==
    /\ call.op = "calculate_experience_score"
    /\ ret' = [op |-> call.op, arg |-> call.arg, crit |-> criteria,
               value |-> calculate_experience_score(or_empty(call.arg))]
    /\ UNCHANGED <<criteria, profiles, call, requests>>

NextScorer ==
    \/ CalculateSkillsScore
    \/ CalculateEducationScore
    \/ CalculateExperienceScore

SpecScorer == InitScorer /\ [][NextScorer]_vars

---------------------------------------------------------------------------
(* Properties of rank_candidates *)

ScoreOf(id) == profiles[id].score

Count(seq, x) == Cardinality({i \in DOMAIN seq : seq[i] = x})

\* the elements of seq whose score is v, in their order in seq
WithScore(seq, v) == SelectSeq(seq, LAMBDA x : ScoreOf(x) = v)

\* C1: in the list rank_candidates returns, every profile's score, as written by
\* this call, is greater than or equal to the score of the profile that follows it.
C1_RankedDescending ==
    ret.op = "rank_candidates" =>
        /\ \A id \in Range(ret.arg) :
              ScoreOf(id) = weighted_total(profiles[id].score_breakdown, ret.crit)
        /\ \A i \in 1..(Len(ret.value) - 1) :
              ScoreOf(ret.value[i]) >= ScoreOf(ret.value[i + 1])

\* a ranking of three profiles with three different positions than in the input,
\* the scores strictly falling somewhere
C1_Witness ==
    /\ ret.op = "rank_candidates"
    /\ ret.arg = <<"A", "B", "C">>
    /\ ret.value = <<"C", "A", "B">>
    /\ ScoreOf("C") > ScoreOf("A")
    /\ ScoreOf("A") > ScoreOf("B")

\* C2: profiles with equal total scores keep, in the list rank_candidates returns,
\* the relative order they have in the input list.
C2_TiesKeepInputOrder ==
    ret.op = "rank_candidates" =>
        \A id \in Range(ret.arg) :
            WithScore(ret.value, ScoreOf(id)) = WithScore(ret.arg, ScoreOf(id))

\* the input [A, B, C] with B and C tied above A gives [B, C, A]
C2_Witness ==
    /\ ret.op = "rank_candidates"
    /\ ret.arg = <<"A", "B", "C">>
    /\ ScoreOf("B") = ScoreOf("C")
    /\ ScoreOf("A") < ScoreOf("B")
    /\ ret.value = <<"B", "C", "A">>

\* C3: the list rank_candidates returns is a permutation of its input: every
\* profile occurs in it as many times as in the input, and an empty input gives
\* an empty list.
C3_RankedIsPermutation ==
    ret.op = "rank_candidates" =>
        /\ Len(ret.value) = Len(ret.arg)
        /\ \A id \in Ids : Count(ret.value, id) = Count(ret.arg, id)
        /\ (ret.arg = <<>> => ret.value = <<>>)

\* a ranking of a list in which one profile occurs twice
C3_Witness ==
    /\ ret.op = "rank_candidates"
    /\ Len(ret.arg) = MaxBatch
    /\ \E id \in Ids : Count(ret.arg, id) = 2 /\ Count(ret.value, id) = 2
    /\ ret.value # ret.arg

---------------------------------------------------------------------------
(* Properties of the three criterion scores *)

\* the positions of the skills whose lower-cased form is the lower-cased form of
\* some entry of required
MatchedPositions(skills, required) ==
    {i \in DOMAIN skills : \E j \in DOMAIN required : lower(skills[i]) = lower(required[j])}

\* C4: for a skill list of n skills none of which matches a required skill,
\* calculate_skills_score returns min(n/10, 1.0).
C4_UnmatchedSkillsScore ==
    (/\ ret.op = "calculate_skills_score"
     /\ MatchedPositions(ret.arg, ret.crit.required_skills) = {})
        => ret.value = Min(Len(ret.arg), FULL_SCORE)

\* more than ten skills, none of them among the required skills that are listed
C4_Witness ==
    /\ ret.op = "calculate_skills_score"
    /\ ret.crit.required_skills # <<>>
    /\ MatchedPositions(ret.arg, ret.crit.required_skills) = {}
    /\ Len(ret.arg) > FULL_SCORE
    /\ ret.value = FULL_SCORE

\* C5: for a non-empty skill list of n skills, m of which match a required skill
\* case-insensitively, calculate_skills_score returns
\* min(min(n/10, 1.0) + 0.2 * m, 1.0); m counts the candidate's skills, whatever
\* the number of times a required skill is listed.
C5_RequiredBonus ==
    (ret.op = "calculate_skills_score" /\ ret.arg # <<>>) =>
        ret.value =
            Min(Min(Len(ret.arg), FULL_SCORE)
                + REQUIRED_BONUS
                  * Cardinality(MatchedPositions(ret.arg, ret.crit.required_skills)),
                FULL_SCORE)

\* two skills that match, in another case, a required skill that is listed twice:
\* the bonus is 0.4 and the score stays below the cap
C5_Witness ==
    /\ ret.op = "calculate_skills_score"
    /\ ret.crit.required_skills = <<sql, sql>>
    /\ ret.arg = <<SQL_, SQL_, java>>
    /\ ret.value = 3 + 2 * REQUIRED_BONUS

\* some education sentence contains, lower-cased, one of the terms
Mentions(education, terms) ==
    \E i \in DOMAIN education : \E term \in terms :
        Contains(lower(education[i]), term)

\* C6: calculate_education_score returns the score of the first tier matched in
\* the order doctorate 1.0, master 0.8, bachelor 0.6, diploma/certificate 0.4,
\* and 0.0 when none matches or the list is empty; education that mentions both
\* "bachelor" and "phd" scores 1.0 in either order of the sentences.
C6_EducationTierPrecedence ==
    ret.op = "calculate_education_score" =>
        /\ ret.value =
              IF ret.arg = <<>> THEN 0
              ELSE IF Mentions(ret.arg, DOCTORATE_TERMS) THEN DOCTORATE_SCORE
              ELSE IF Mentions(ret.arg, MASTER_TERMS) THEN MASTER_SCORE
              ELSE IF Mentions(ret.arg, BACHELOR_TERMS) THEN BACHELOR_SCORE
              ELSE IF Mentions(ret.arg, DIPLOMA_TERMS) THEN DIPLOMA_SCORE
              ELSE 0
        /\ (ret.arg \in {<<s_Bachelor, s_PhD>>, <<s_PhD, s_Bachelor>>}
               => ret.value = DOCTORATE_SCORE)

\* the bachelor sentence first, the doctorate sentence second
C6_Witness ==
    /\ ret.op = "calculate_education_score"
    /\ ret.arg = <<s_Bachelor, s_PhD>>
    /\ ret.value = DOCTORATE_SCORE

\* C7: the experience score is 0.0 or 0.7: 0.0 for an absent or empty text, 0.7
\* for a text that contains, lower-cased, an indicator word, 0.0 for any other.
C7_ExperienceScore ==
    ret.op = "calculate_experience_score" =>
        /\ ret.value \in {0, EXPERIENCE_SCORE}
        /\ ret.value =
              IF ret.arg = None \/ ret.arg = Some(<<>>) THEN 0
              ELSE IF \E term \in EXPERIENCE_TERMS : Contains(lower(ret.arg[1]), term)
                   THEN EXPERIENCE_SCORE
              ELSE 0

\* a text with the indicator word "experience", capitalised, scores 0.7
C7_Witness ==
    /\ ret.op = "calculate_experience_score"
    /\ ret.arg = Some(t_Experience)
    /\ ret.value = EXPERIENCE_SCORE

---------------------------------------------------------------------------
(* Properties of score_candidate *)

\* the profiles the most recent score_candidate or rank_candidates call scored
LastScored ==
    IF ret.op \in {"score_candidate", "rank_candidates"} THEN Range(ret.arg) ELSE {}

WeightsSumToOne(crit) ==
    crit.skills_weight + crit.education_weight + crit.experience_weight = FULL_SCORE

WeightsNonNegative(crit) ==
    /\ crit.skills_weight >= 0
    /\ crit.education_weight >= 0
    /\ crit.experience_weight >= 0

\* a total between 0.0 and 1.0 (totals are in hundredths)
InUnitRange(total) == 0 <= total /\ total <= FULL_SCORE * FULL_SCORE

\* C8: after score_candidate the profile's score is skills * skills_weight
\* + education * education_weight + experience * experience_weight, over the
\* breakdown written by the same call and the weights of the criteria it read.
C8_WeightedTotal ==
    ret.op = "score_candidate" =>
        LET p == profiles[ret.arg[1]]
        IN  /\ DOMAIN p.score_breakdown = BreakdownKeys
            /\ p.score = p.score_breakdown["skills"] * ret.crit.skills_weight
                         + p.score_breakdown["education"] * ret.crit.education_weight
                         + p.score_breakdown["experience"] * ret.crit.experience_weight

\* breakdown 0.6, 0.8, 0.0 under the weights 0.5, 0.2, 0.3 gives 0.46
C8_Witness ==
    /\ ret.op = "score_candidate"
    /\ ret.crit.skills_weight = 5
    /\ ret.crit.education_weight = 2
    /\ ret.crit.experience_weight = 3
    /\ LET p == profiles[ret.arg[1]]
       IN  /\ p.score_breakdown["skills"] = 6
           /\ p.score_breakdown["education"] = 8
           /\ p.score_breakdown["experience"] = 0
           /\ p.score = 46

\* C9, as claimed: whenever the three weights sum to 1, the total score written
\* lies in [0,1].
C9_UnitRangeWhenWeightsSumToOne ==
    \A id \in LastScored :
        WeightsSumToOne(ret.crit) => InUnitRange(profiles[id].score)

\* C9, amended: whenever the three weights are non-negative and sum to 1, the
\* total score written lies in [0,1].
C9_UnitRangeWhenWeightsNonNegative ==
    \A id \in LastScored :
        (WeightsSumToOne(ret.crit) /\ WeightsNonNegative(ret.crit))
            => InUnitRange(profiles[id].score)

\* a profile that scores on all three criteria under non-negative weights that
\* sum to 1, and ends strictly inside the range
C9_Witness ==
    /\ ret.op = "score_candidate"
    /\ WeightsSumToOne(ret.crit) /\ WeightsNonNegative(ret.crit)
    /\ LET p == profiles[ret.arg[1]]
       IN  /\ \A k \in BreakdownKeys : p.score_breakdown[k] > 0
           /\ p.score = 79

\* C10: a profile's score_breakdown is empty or has exactly the keys skills,
\* education and experience, and every value in it lies in [0,1].
C10_BreakdownInUnitRange ==
    \A id \in Ids :
        LET b == profiles[id].score_breakdown
        IN  /\ DOMAIN b = {} \/ DOMAIN b = BreakdownKeys
            /\ \A k \in DOMAIN b : 0 <= b[k] /\ b[k] <= FULL_SCORE

\* a scored profile with more than ten skills, most of them required, beside a
\* profile that was never scored
C10_Witness ==
    /\ ret.op = "score_candidate"
    /\ \E id \in Ids :
          /\ ret.arg = <<id>>
          /\ Len(profiles[id].extracted_data.skills) > FULL_SCORE
          /\ Cardinality(MatchedPositions(profiles[id].extracted_data.skills,
                                          ret.crit.required_skills)) > 5
          /\ profiles[id].score_breakdown["skills"] = FULL_SCORE
    /\ \E id \in Ids : DOMAIN profiles[id].score_breakdown = {}

---------------------------------------------------------------------------
(* Callers that use the global ranking_service in parallel.  Each assigns its   *)
(* criteria to ranking_service.criteria and then calls score_candidate or       *)
(* rank_candidates, as main.py and test_services.py do.  A step is one read or  *)
(* write of the attribute self.criteria; what a caller does between two of them *)
(* touches only its own profiles and locals.                                    *)

RequestIds == {"R1", "R2"}

\* the callers: one ranks a batch of two profiles, one scores a single profile
RequestCalls ==
    [R1 |-> [op |-> "rank_candidates", list |-> <<"A", "B">>],
     R2 |-> [op |-> "score_candidate", list |-> <<"C">>]]

\* a caller before its first step
Request(op, list, crit) ==
    [op |-> op, list |-> list, crit |-> crit, pc |-> "assign",
     i |-> 0, k |-> 0, matched |-> 0, breakdown |-> EmptyBreakdown, total |-> 0,
     value |-> <<>>]

\* skill.lower() in [rs.lower() for rs in self.criteria.required_skills]
skill_matches(skill, required_skills) ==
    lower(skill) \in {lower(rs) : rs \in Range(required_skills)}

\* the value calculate_skills_score returns once it has found `matched` of the
\* skills among the required skills
skills_score_of(skills, matched) ==
    IF skills = <<>> THEN 0
    ELSE Min(Min(Len(skills), FULL_SCORE) + matched * REQUIRED_BONUS, FULL_SCORE)

\* the caller req at the start of score_candidate for the i-th profile of its
\* list, or, past the end of the list, with its call returned
BeginScore(req, i, objs) ==
    IF i > Len(req.list)
    THEN [req EXCEPT !.pc = "done", !.i = i, !.k = 0, !.matched = 0,
                     !.breakdown = EmptyBreakdown, !.total = 0,
                     !.value = IF req.op = "rank_candidates"
                               THEN sorted_by_score_reverse(req.list, objs)
                               ELSE req.list]
    ELSE [req EXCEPT !.i = i, !.k = 0, !.matched = 0,
                     !.breakdown = EmptyBreakdown, !.total = 0,
                     !.pc = IF objs[req.list[i]].extracted_data.skills = <<>>
                            THEN "skills_weight" ELSE "required_skills"]

InitRequests ==
    /\ criteria = RankingCriteriaDefaults
    /\ \E data \in ProfileDataPool :
          profiles = [id \in Ids |-> CandidateProfile(id, data[id])]
    /\ call = NoCall
    /\ ret = NoRet
    /\ \E crits \in [RequestIds -> CriteriaPool] :
          requests = [r \in RequestIds |->
                         Request(RequestCalls[r].op, RequestCalls[r].list, crits[r])]

\* ranking_service.criteria = criteria, followed by the call
AssignCriteria(r) ==
    /\ requests[r].pc = "assign"
    /\ criteria' = requests[r].crit
    /\ requests' = [requests EXCEPT ![r] = BeginScore(@, 1, profiles)]
    /\ UNCHANGED <<profiles, call, ret>>

\* calculate_skills_score: the test of one skill, which reads
\* self.criteria.required_skills
ReadRequiredSkills(r) ==
    LET req == requests[r]
        skills == profiles[req.list[req.i]].extracted_data.skills
    IN  /\ req.pc = "required_skills"
        /\ requests' =
              [requests EXCEPT ![r] =
                  [req EXCEPT
                      !.k = req.k + 1,
                      !.matched =
                          IF skill_matches(skills[req.k + 1], criteria.required_skills)
                          THEN req.matched + 1 ELSE req.matched,
                      !.pc = IF req.k + 1 = Len(skills)
                             THEN "skills_weight" ELSE "required_skills"]]
        /\ UNCHANGED <<criteria, profiles, call, ret>>

\* score_candidate: the three scores are in the breakdown, and
\* skills_score * self.criteria.skills_weight is evaluated
ReadSkillsWeight(r) ==
    LET req == requests[r]
        data == profiles[req.list[req.i]].extracted_data
        breakdown ==
            [skills |-> skills_score_of(data.skills, req.matched),
             education |-> calculate_education_score(data.education),
             experience |-> calculate_experience_score(or_empty(data.experience))]
    IN  /\ req.pc = "skills_weight"
        /\ requests' =
              [requests EXCEPT ![r] =
                  [req EXCEPT !.breakdown = breakdown,
                              !.total = breakdown["skills"] * criteria.skills_weight,
                              !.pc = "education_weight"]]
        /\ UNCHANGED <<criteria, profiles, call, ret>>

\* score_candidate: + education_score * self.criteria.education_weight
ReadEducationWeight(r) ==
    LET req == requests[r]
    IN  /\ req.pc = "education_weight"
        /\ requests' =
              [requests EXCEPT ![r] =
                  [req EXCEPT !.total = req.total + req.breakdown["education"]
                                                    * criteria.education_weight,
                              !.pc = "experience_weight"]]
        /\ UNCHANGED <<criteria, profiles, call, ret>>

\* score_candidate: + experience_score * self.criteria.experience_weight, then
\* profile.score and profile.score_breakdown are written and the profile returned
ReadExperienceWeight(r) ==
    LET req == requests[r]
        id == req.list[req.i]
        total_score == req.total + req.breakdown["experience"] * criteria.experience_weight
    IN  /\ req.pc = "experience_weight"
        /\ profiles' = [profiles EXCEPT ![id] =
                           [@ EXCEPT !.score = total_score,
                                     !.score_breakdown = req.breakdown]]
        /\ requests' = [requests EXCEPT ![r] = BeginScore(req, req.i + 1, profiles')]
        /\ UNCHANGED <<criteria, call, ret>>

NextRequests ==
    \E r \in RequestIds :
        \/ AssignCriteria(r)
        \/ ReadRequiredSkills(r)
        \/ ReadSkillsWeight(r)
        \/ ReadEducationWeight(r)
        \/ ReadExperienceWeight(r)

SpecRequests == InitRequests /\ [][NextRequests]_vars

\* C11: when several requests run in parallel, each with its own profiles and
\* its own criteria, every profile of a request that has finished holds the score
\* and the breakdown computed from the criteria of that request (so all profiles
\* of one rank_candidates call are scored with the same criteria).
C11_ScoredWithOwnCriteria ==
    \A r \in DOMAIN requests :
        requests[r].pc = "done" =>
            \A id \in Range(requests[r].list) :
                profiles[id] = score_candidate(profiles[id], requests[r].crit)

---------------------------------------------------------------------------
(* Properties of score_candidate and rank_candidates as steps of the service *)

\* the fields of a profile that scoring does not write
Unscored(profile) ==
    [candidate_id |-> profile.candidate_id, extracted_data |-> profile.extracted_data]

\* C12: score_candidate changes only the score and score_breakdown of the profile
\* it is given and returns that profile: the criteria, the profile's candidate_id
\* and extracted_data and every other profile stay as they are; rank_candidates
\* likewise leaves the criteria as they are, and changes nothing but the score
\* and score_breakdown of the profiles of its list.  (A step that changes ret is
\* a call of one of the two; ret.arg is the list as the caller holds it after
\* the call.)
C12_ScoringFrame ==
    [][IF ret' = ret
       THEN profiles' = profiles
       ELSE /\ criteria' = criteria
            /\ ret'.crit = criteria
            /\ (ret'.op = "score_candidate" =>
                   Len(ret'.arg) = 1 /\ ret'.value = ret'.arg)
            /\ \A id \in Ids :
                  IF id \in Range(ret'.arg)
                  THEN Unscored(profiles'[id]) = Unscored(profiles[id])
                  ELSE profiles'[id] = profiles[id]
      ]_vars

\* score_candidate has rescored a profile whose skills are not all lower-case,
\* beside a profile that holds the score of earlier, different criteria
C12_Witness ==
    /\ ret.op = "score_candidate"
    /\ LET p == profiles[ret.arg[1]]
       IN  /\ \E i \in DOMAIN p.extracted_data.skills :
                 p.extracted_data.skills[i] # lower(p.extracted_data.skills[i])
           /\ p.score # 0
    /\ \E other \in Ids \ Range(ret.arg) :
          /\ profiles[other].score # 0
          /\ profiles[other] # score_candidate(profiles[other], ret.crit)

\* the profile holds the breakdown and the total that its extracted_data gives
\* under crit
HoldsValuesFor(profile, crit) ==
    /\ profile.score_breakdown = score_breakdown_of(profile.extracted_data, crit)
    /\ profile.score = weighted_total(score_breakdown_of(profile.extracted_data, crit), crit)

\* C13: the score and breakdown score_candidate writes depend only on the
\* profile's extracted_data and the criteria in effect, not on the score or
\* breakdown the profile had: after any sequence of criteria changes and
\* rescorings, every profile of the most recent call holds the values for the
\* criteria of that call (also a profile the call scored twice), and every
\* scored profile holds the values for some criteria that were assigned.
C13_RescoringOverwrites ==
    /\ \A id \in LastScored : HoldsValuesFor(profiles[id], ret.crit)
    /\ \A id \in Ids :
          \/ profiles[id].score = 0 /\ profiles[id].score_breakdown = EmptyBreakdown
          \/ \E crit \in CriteriaPool : HoldsValuesFor(profiles[id], crit)

\* rank_candidates has scored one profile twice in a call, after the criteria
\* changed: another profile still holds the non-zero score of other criteria
C13_Witness ==
    /\ ret.op = "rank_candidates"
    /\ \E id \in Range(ret.arg) :
          /\ Count(ret.arg, id) = 2
          /\ profiles[id].score # 0
    /\ \E other \in Ids \ Range(ret.arg) :
          /\ profiles[other].score # 0
          /\ \A k \in BreakdownKeys : profiles[other].score_breakdown[k] # 0
          /\ ~HoldsValuesFor(profiles[other], ret.crit)

---------------------------------------------------------------------------
(* app/services/extraction_service.py *)

SKILLS_KEYWORDS ==
    { <<"p","y","t","h","o","n">>,
      <<"j","a","v","a","s","c","r","i","p","t">>, <<"j","a","v","a">>,
      <<"h","t","m","l">>, <<"c","s","s">>, <<"r","e","a","c","t">>,
      <<"n","o","d","e",".","j","s">>, <<"s","q","l">>,
      <<"n","o","s","q","l">>, <<"m","o","n","g","o","d","b">>,
      <<"a","w","s">>, <<"d","o","c","k","e","r">>,
      <<"k","u","b","e","r","n","e","t","e","s">>, <<"g","i","t">>,
      <<"m","a","c","h","i","n","e"," ","l","e","a","r","n","i","n","g">>,
      <<"d","a","t","a"," ","a","n","a","l","y","s","i","s">>,
      <<"p","r","o","j","e","c","t"," ","m","a","n","a","g","e","m","e","n","t">>,
      <<"d","i","g","i","t","a","l"," ","m","a","r","k","e","t","i","n","g">>,
      <<"u","i","/","u","x">>, <<"f","i","g","m","a">> }

\* the education keywords of extract_education
EDUCATION_KEYWORDS ==
    { <<"b",".","s","c">>, <<"b","a","c","h","e","l","o","r">>,
      <<"d","e","g","r","e","e">>,
      <<"u","n","i","v","e","r","s","i","t","y">>,
      <<"p","o","l","y","t","e","c","h","n","i","c">>, <<"o","n","d">>,
      <<"h","n","d">> }

\* words the resume texts are built from
machine == <<"m","a","c","h","i","n","e">>
learning == <<"l","e","a","r","n","i","n","g">>
B_Sc == <<"B",".","S","c">>
Yrs == <<"Y","r","s">>
machine_learning == <<"m","a","c","h","i","n","e"," ","l","e","a","r","n","i","n","g">>

(* nlp = spacy.load("en_core_web_sm"): the tokens, entities and sentences it   *)
(* finds in a text are its own choice, and it may raise.                       *)

\* most entities the recogniser returns for one text
MaxEnts == 1
\* most words of a resume text
MaxWords == 2

RECURSIVE SplitOn(_, _)
\* the maximal runs of characters of text that are not in seps, in order
SplitOn(text, seps) ==
    IF text = <<>> THEN <<>>
    ELSE IF text[1] \in seps THEN SplitOn(Tail(text), seps)
    ELSE LET stops == {i \in DOMAIN text : text[i] \in seps}
             n == IF stops = {} THEN Len(text) + 1
                  ELSE CHOOSE i \in stops : \A j \in stops : i <= j
         IN  <<SubSeq(text, 1, n - 1)>> \o SplitOn(SubSeq(text, n, Len(text)), seps)

\* ent.label_
NER_LABELS == {"ORG", "PERSON"}

\* doc.ents: entities are runs of whole words that do not overlap, each with a label
EntitySets(words) ==
    LET candidates ==
            {[text |-> JoinSpace(SubSeq(words, a, b)), label_ |-> l, a |-> a, b |-> b] :
                a \in DOMAIN words, b \in DOMAIN words, l \in NER_LABELS}
        spans == {e \in candidates : e.a <= e.b}
    IN  {E \in {Range(s) : s \in SeqsUpTo(spans, MaxEnts)} :
            \A e1 \in E : \A e2 \in E : e1 = e2 \/ e1.b < e2.a \/ e2.b < e1.a}

\* nlp(text), as extract_skills reads it: the tokens are the words between spaces,
\* whole or cut at the punctuation inside them (a punctuation token is no
\* vocabulary term and is left out)
NlpDocs(text) ==
    LET words == SplitOn(text, {" "})
    IN  {[text |-> text, tokens |-> t, ents |-> e] :
            t \in {words, SplitOn(text, {" ", ".", "/"})}, e \in EntitySets(words)}

\* the skills the loop over the tokens adds
token_skills(doc) ==
    {doc.tokens[i] : i \in {j \in DOMAIN doc.tokens : doc.tokens[j] \in SKILLS_KEYWORDS}}

\* the skills the loop over doc.ents adds
entity_skills(doc) ==
    {lower(ent.text) :
        ent \in {e \in doc.ents : e.label_ = "ORG" /\ lower(e.text) \in SKILLS_KEYWORDS}}

\* list(found_skills): the elements of the set, once each, in any order
ListsOf(S) == {s \in [1..Cardinality(S) -> S] : Range(s) = S}

\* faulty variant: found_skills is a list the two loops append to
extract_skills_appending(doc) ==
    {a \o b : a \in ListsOf(token_skills(doc)), b \in ListsOf(entity_skills(doc))}

\* faulty variant: every vocabulary term that occurs in the text is added
extract_skills_by_substring(doc) ==
    ListsOf({term \in SKILLS_KEYWORDS : Contains(doc.text, term)} \cup entity_skills(doc))

\* extract_skills(text), given doc = nlp(text.lower()): the lists it may return
extract_skills(doc) == ListsOf(token_skills(doc) \cup entity_skills(doc))

RECURSIVE strip(_)
\* str.strip(): the text without the spaces at its two ends
strip(text) ==
    IF text = <<>> THEN <<>>
    ELSE IF text[1] = " " THEN strip(Tail(text))
    ELSE IF text[Len(text)] = " " THEN strip(SubSeq(text, 1, Len(text) - 1))
    ELSE text

\* the spaces a text starts with, and those it ends with
LeadingSpaces(text) ==
    [k \in 1..Cardinality({i \in DOMAIN text : \A j \in 1..i : text[j] = " "}) |-> " "]
TrailingSpaces(text) ==
    [k \in 1..Cardinality({i \in DOMAIN text : \A j \in i..Len(text) : text[j] = " "})
        |-> " "]

\* doc.sents for the words cut into sentences after the words numbered in cuts;
\* white space at the start of the text belongs to the first sentence, white
\* space at its end to the last
Sentences(text, cuts) ==
    LET words == SplitOn(text, {" "})
        starts == {1} \cup {c + 1 : c \in cuts}
        nth(k) == CHOOSE a \in starts : Cardinality({b \in starts : b < a}) = k - 1
        last(a) == IF \E c \in cuts : c >= a
                   THEN CHOOSE c \in cuts : c >= a /\ \A d \in cuts : d >= a => c <= d
                   ELSE Len(words)
        n == Cardinality(starts)
    IN  IF words = <<>> THEN (IF text = <<>> THEN <<>> ELSE <<text>>)
        ELSE [k \in 1..n |->
                 (IF k = 1 THEN LeadingSpaces(text) ELSE <<>>)
                 \o JoinSpace(SubSeq(words, nth(k), last(nth(k))))
                 \o (IF k = n THEN TrailingSpaces(text) ELSE <<>>)]

\* nlp(text), as extract_education reads it: any cut of the words into sentences
NlpSentenceDocs(text) ==
    {[text |-> text, sents |-> Sentences(text, cuts)] :
        cuts \in SUBSET (1..(Len(SplitOn(text, {" "})) - 1))}

\* any(word in sent.text.lower() for word in [...])
has_education_keyword(sent) == ContainsAny(lower(sent), EDUCATION_KEYWORDS)

RECURSIVE extract_education_deduplicated(_)
\* faulty variant: a sentence that is already in the list is not appended again
extract_education_deduplicated(doc) ==
    IF doc.sents = <<>> THEN <<>>
    ELSE LET before == extract_education_deduplicated(
                           [doc EXCEPT !.sents = SubSeq(@, 1, Len(@) - 1)])
             sent == doc.sents[Len(doc.sents)]
         IN  IF has_education_keyword(sent) /\ strip(sent) \notin Range(before)
             THEN Append(before, strip(sent)) ELSE before

\* extract_education(text), given doc = nlp(text)
extract_education(doc) ==
    LET kept == SelectSeq(doc.sents, has_education_keyword)
    IN  [i \in DOMAIN kept |-> strip(kept[i])]

\* ExtractedData(raw_text=..., skills=..., education=..., experience=...)
ExtractedDataFrom(raw_text, skills, education, experience) ==
    [raw_text |-> raw_text, skills |-> skills, education |-> education,
     experience |-> experience]

\* what a call of extract_skills or extract_education comes to: it raises, or it
\* returns value, computed from doc
Raised == [raised |-> TRUE, doc |-> <<>>, value |-> <<>>]
Returned(doc, value) == [raised |-> FALSE, doc |-> doc, value |-> value]

\* self.extract_skills(text): nlp(text.lower()) raises, or returns some doc
SkillsOutcomes(text) ==
    {Raised} \cup
    UNION {{Returned(doc, value) : value \in extract_skills(doc)} :
              doc \in NlpDocs(lower(text))}

\* self.extract_education(text): nlp(text) raises, or returns some doc
EducationOutcomes(text) ==
    {Raised} \cup {Returned(doc, extract_education(doc)) : doc \in NlpSentenceDocs(text)}

\* faulty variant: a failure of the education step gives an empty education list
extract_all_partial(raw_text, skills, education) ==
    IF skills.raised
    THEN [raised |-> TRUE, value |-> None, nlp_calls |-> 1, logged |-> 1]
    ELSE [raised |-> FALSE,
          value |-> Some(ExtractedDataFrom(raw_text, skills.value, education.value, None)),
          nlp_calls |-> 2, logged |-> IF education.raised THEN 1 ELSE 0]

\* faulty variant: the raw text is returned as the experience
extract_all_with_raw_experience(raw_text, skills, education) ==
    IF skills.raised
    THEN [raised |-> TRUE, value |-> None, nlp_calls |-> 1, logged |-> 1]
    ELSE IF education.raised
    THEN [raised |-> TRUE, value |-> None, nlp_calls |-> 2, logged |-> 1]
    ELSE [raised |-> FALSE,
          value |-> Some(ExtractedDataFrom(raw_text, skills.value, education.value,
                                           Some(raw_text))),
          nlp_calls |-> 2, logged |-> 0]

\* extract_all(self, raw_text), given what its two steps come to: whether it
\* raises, the ExtractedData it returns, the number of nlp calls made and the
\* number of errors logged
extract_all(raw_text, skills, education) ==
    IF skills.raised
    THEN [raised |-> TRUE, value |-> None, nlp_calls |-> 1, logged |-> 1]
    ELSE IF education.raised
    THEN [raised |-> TRUE, value |-> None, nlp_calls |-> 2, logged |-> 1]
    ELSE [raised |-> FALSE,
          value |-> Some(ExtractedDataFrom(raw_text, skills.value, education.value, None)),
          nlp_calls |-> 2, logged |-> 0]

\* the resume texts: up to MaxWords of these words with single spaces between,
\* as they are or after a space
ResumeWords == {AWS_, git, machine, learning, B_Sc, Yrs}
ResumeTexts ==
    {pad \o JoinSpace(ws) : pad \in {<<>>, <<" ">>}, ws \in SeqsUpTo(ResumeWords, MaxWords)}

ExtractionCalls ==
    [op : {"extract_skills", "extract_education", "extract_all",
           "analyze_candidate", "extract_and_score"},
     arg : ResumeTexts]

InitExtraction ==
    /\ criteria = RankingCriteriaDefaults
    /\ profiles = [id \in Ids |-> CandidateProfile(id, ExtractedData(<<>>, <<>>, None))]
    /\ call \in ExtractionCalls
    /\ ret = NoRet
    /\ requests = NoRequests

\* extraction_service.extract_skills(text)
ExtractSkills ==
    /\ call.op = "extract_skills"
    /\ ret = NoRet
    /\ \E outcome \in SkillsOutcomes(call.arg) :
          ret' = [op |-> call.op, arg |-> call.arg, raised |-> outcome.raised,
                  doc |-> outcome.doc, value |-> outcome.value]
    /\ UNCHANGED <<criteria, profiles, call, requests>>

\* extraction_service.extract_education(text)
ExtractEducation ==
    /\ call.op = "extract_education"
    /\ ret = NoRet
    /\ \E outcome \in EducationOutcomes(call.arg) :
          ret' = [op |-> call.op, arg |-> call.arg, raised |-> outcome.raised,
                  doc |-> outcome.doc, value |-> outcome.value]
    /\ UNCHANGED <<criteria, profiles, call, requests>>

\* extraction_service.extract_all(raw_text)
ExtractAll ==
    /\ call.op = "extract_all"
    /\ ret = NoRet
    /\ \E skills \in SkillsOutcomes(call.arg) :
       \E education \in EducationOutcomes(call.arg) :
          LET result == extract_all(call.arg, skills, education)
          IN  ret' = [op |-> call.op, arg |-> call.arg, raised |-> result.raised,
                      docs |-> IF skills.raised THEN <<>>
                               ELSE IF education.raised THEN <<skills.doc>>
                               ELSE <<skills.doc, education.doc>>,
                      value |-> result.value, nlp_calls |-> result.nlp_calls,
                      logged |-> result.logged]
    /\ UNCHANGED <<criteria, profiles, call, requests>>

\* what extract_all(raw_text) may come to
ExtractAllResults(raw_text) ==
    {extract_all(raw_text, skills, education) :
        skills \in SkillsOutcomes(raw_text), education \in EducationOutcomes(raw_text)}

\* the caller's steps after parse_file: extract_all, CandidateProfile(...),
\* ranking_service.criteria = crit, score_candidate; an exception of extract_all
\* ends them
ExtractThenScore(crit) ==
    /\ ret = NoRet
    /\ \E result \in ExtractAllResults(call.arg) :
          IF result.raised
          THEN /\ ret' = [op |-> call.op, arg |-> <<>>, crit |-> criteria,
                          value |-> <<>>, success |-> FALSE]
               /\ UNCHANGED <<criteria, profiles>>
          ELSE /\ criteria' = crit
               /\ profiles' =
                     [profiles EXCEPT !["A"] =
                         score_candidate(CandidateProfile("A", result.value[1]), crit)]
               /\ ret' = [op |-> call.op, arg |-> <<"A">>, crit |-> crit,
                          value |-> <<"A">>, success |-> TRUE]

\* POST /api/analyze-candidate, from the parsed text on
AnalyzeCandidate ==
    /\ call.op = "analyze_candidate"
    /\ ExtractThenScore(DEFAULT_CRITERIA)
    /\ UNCHANGED <<call, requests>>

\* test_services.main(), steps 2 and 3, for the criteria the caller sets up
ExtractAndScore(crit) ==
    /\ call.op = "extract_and_score"
    /\ ExtractThenScore(crit)
    /\ UNCHANGED <<call, requests>>

NextExtraction ==
    \/ ExtractSkills
    \/ ExtractEducation
    \/ ExtractAll
    \/ AnalyzeCandidate
    \/ \E crit \in CriteriaPool : ExtractAndScore(crit)

SpecExtraction == InitExtraction /\ [][NextExtraction]_vars

---------------------------------------------------------------------------
(* Properties of the extraction service *)

\* the loop over the tokens finds term
FoundByToken(doc, term) == \E i \in DOMAIN doc.tokens : doc.tokens[i] = term

\* the loop over the entities finds term
FoundByEntity(doc, term) ==
    \E ent \in doc.ents : ent.label_ = "ORG" /\ lower(ent.text) = term

\* C14: for every input text, the list extract_skills returns has no entry
\* twice, and every entry is a lower-case member of the skill vocabulary; a
\* vocabulary term found both among the tokens and among the entities is in the
\* list once.
C14_SkillsUniqueFromVocabulary ==
    (ret.op = "extract_skills" /\ ~ret.raised) =>
        /\ \A i \in DOMAIN ret.value : \A j \in DOMAIN ret.value :
              ret.value[i] = ret.value[j] => i = j
        /\ \A i \in DOMAIN ret.value :
              ret.value[i] \in SKILLS_KEYWORDS /\ ret.value[i] = lower(ret.value[i])
        /\ \A term \in SKILLS_KEYWORDS :
              (FoundByToken(ret.doc, term) /\ FoundByEntity(ret.doc, term))
                  => Count(ret.value, term) = 1

\* "AWS git": aws is a token and an organization entity, git is a token
C14_Witness ==
    /\ ret.op = "extract_skills"
    /\ ~ret.raised
    /\ ret.arg = JoinSpace(<<AWS_, git>>)
    /\ FoundByToken(ret.doc, aws) /\ FoundByEntity(ret.doc, aws)
    /\ ret.value = <<git, aws>>

\* C15: a vocabulary term of several words that is in the text verbatim, and
\* that the recogniser does not return as one organization entity, is not in the
\* list extract_skills returns.
C15_MultiWordTermsNeedEntity ==
    (ret.op = "extract_skills" /\ ~ret.raised) =>
        \A term \in SKILLS_KEYWORDS :
            (/\ Contains(term, <<" ">>)
             /\ Contains(lower(ret.arg), term)
             /\ ~FoundByEntity(ret.doc, term))
                => term \notin Range(ret.value)

\* "machine learning", of which the recogniser returns "machine" alone as an
\* organization: nothing is extracted
C15_Witness ==
    /\ ret.op = "extract_skills"
    /\ ~ret.raised
    /\ ret.arg = machine_learning
    /\ ret.doc.tokens = <<machine, learning>>
    /\ \E ent \in ret.doc.ents : ent.label_ = "ORG" /\ ent.text = machine
    /\ ret.value = <<>>

\* the positions of the sentences that contain, lower-cased, an education keyword
KeywordSentences(sents) ==
    {i \in DOMAIN sents : \E word \in EDUCATION_KEYWORDS : Contains(lower(sents[i]), word)}

C17_ExtractAllCompleteOrRaises ==
    ret.op = "extract_all" =>
        IF ret.raised
        THEN /\ ret.value = None
             /\ ret.logged = 1
             /\ ret.nlp_calls = Len(ret.docs) + 1
             /\ ret.nlp_calls <= 2
        ELSE /\ ret.value # None
             /\ Len(ret.docs) = 2
             /\ ret.nlp_calls = 2
             /\ ret.logged = 0
             /\ DOMAIN ret.value[1] = {"raw_text", "skills", "education", "experience"}
             /\ ret.value[1].raw_text = ret.arg
             /\ ret.docs[1].text = lower(ret.arg)
             /\ ret.docs[2].text = ret.arg
             /\ Range(ret.value[1].skills) =
                   {term \in SKILLS_KEYWORDS :
                       FoundByToken(ret.docs[1], term) \/ FoundByEntity(ret.docs[1], term)}
             /\ ret.value[1].education = extract_education(ret.docs[2])

\* the education step fails after the skills step has found a skill: nothing is
\* returned
C17_Witness ==
    /\ ret.op = "extract_all"
    /\ ret.raised
    /\ ret.value = None
    /\ ret.nlp_calls = 2
    /\ Len(ret.docs) = 1
    /\ FoundByToken(ret.docs[1], aws)

\* C18: every ExtractedData extract_all returns has experience None, so a profile
\* built from it and scored has score_breakdown["experience"] = 0.0 and the total
\* skills_score * skills_weight + education_score * education_weight, whatever
\* the text and whatever experience_weight.
C18_ExperienceStub ==
    /\ (ret.op = "extract_all" /\ ~ret.raised) => ret.value[1].experience = None
    /\ (ret.op \in {"analyze_candidate", "extract_and_score"} /\ ret.success) =>
          LET p == profiles[ret.arg[1]]
          IN  /\ p.extracted_data.experience = None
              /\ DOMAIN p.score_breakdown = BreakdownKeys
              /\ p.score_breakdown["experience"] = 0
              /\ p.score = p.score_breakdown["skills"] * ret.crit.skills_weight
                           + p.score_breakdown["education"] * ret.crit.education_weight

\* a text that names a skill and mentions years, scored under criteria with a
\* non-zero experience_weight
C18_Witness ==
    /\ ret.op = "extract_and_score"
    /\ ret.success
    /\ ret.crit.experience_weight # 0
    /\ LET p == profiles[ret.arg[1]]
       IN  /\ ContainsAny(lower(p.extracted_data.raw_text), EXPERIENCE_TERMS)
           /\ p.score_breakdown["skills"] # 0
           /\ p.score = p.score_breakdown["skills"] * ret.crit.skills_weight

===========================================================================
